---- MODULE Spec2Model ----
(***************************************************************************)
(* Model of the question-of-the-day bot (src/src/bot.rs, src/src/main.rs). *)
(*                                                                         *)
(* One process runs Bot::start: a loop of cycles, each cycle being         *)
(*   tick -> restore -> load (fetch + reconcile) -> time check             *)
(*        -> answer (optional) -> save.                                    *)
(* The process position `pc` names the await point the cycle is at, or the *)
(* synchronous step it is executing.  tokio::select! in main drops the     *)
(* future of start() at whatever await point it is suspended on when       *)
(* Ctrl-C arrives.                                                         *)
(*                                                                         *)
(* Strings are sequences of characters, a character being a string: itself *)
(* when it is ASCII, its code point when it is not.                        *)
(***************************************************************************)
EXTENDS Integers, Sequences, FiniteSets, TLC

\* ------------------------------------------------------------------ bounds

\* Number of Question ids the id generator hands out in a behaviour.
MaxIds == 2

\* Largest number of "\n"-separated pieces in one fetched text.
MaxLines == 2

\* Largest number of characters of an argument of a lone call of distance.
MaxChars == 3

\* The model's day has HoursPerDay hours of MinutesPerHour minutes.
HoursPerDay == 2

MinutesPerHour == 2

\* --------------------------------------------------------------- constants

\* bot.rs:109  q.distance(question) < 4
Threshold == 4

\* ----------------------------------------------------------------- strings

IsSpace(c) == c \in {" ", "\t", "\r", "\n"}

RECURSIVE TrimStart(_)
TrimStart(s) ==
    IF s # <<>> /\ IsSpace(Head(s)) THEN TrimStart(Tail(s)) ELSE s

RECURSIVE TrimEnd(_)
TrimEnd(s) ==
    IF s # <<>> /\ IsSpace(s[Len(s)])
    THEN TrimEnd(SubSeq(s, 1, Len(s) - 1))
    ELSE s

\* str::trim
Trim(s) == TrimEnd(TrimStart(s))

\* str::split("\n"): the pieces between the newlines; "" gives one empty piece.
RECURSIVE SplitFrom(_, _, _)
SplitFrom(raw, i, cur) ==
    IF i > Len(raw) THEN <<cur>>
    ELSE IF raw[i] = "\n" THEN <<cur>> \o SplitFrom(raw, i + 1, <<>>)
    ELSE SplitFrom(raw, i + 1, Append(cur, raw[i]))

Split(raw) == SplitFrom(raw, 1, <<>>)

Min2(x, y) == IF x < y THEN x ELSE y

\* ---------------------------------------------------------------- distance

\* The characters that take two bytes in UTF-8 ("U+00E9" stands for the one
\* character e with acute accent); every other character takes one.
TwoByte == {"U+00E9"}

\* str::len: the length of the string in bytes.
ByteLen(s) == Len(s) + Cardinality({ i \in 1..Len(s) : s[i] \in TwoByte })

\* s.chars().nth(i - 1): <<c>> for Some(c), <<>> for None.
Nth(s, i) == IF i <= Len(s) THEN <<s[i]>> ELSE <<>>

\* The cost of bot.rs:187: 0 when the two characters agree, else 1.
Cost(a, b, i, j) == IF Nth(a, i) = Nth(b, j) THEN 0 ELSE 1

\* The transposition test of bot.rs:202-205.
Transposed(a, b, i, j) ==
    /\ i > 1
    /\ j > 1
    /\ Nth(a, i) = Nth(b, j - 1)
    /\ Nth(a, i - 1) = Nth(b, j)

\* matrix[i][j] from the entries to its left (row, filled up to j - 1), above
\* (prev = matrix[i-1]) and two above (prev2 = matrix[i-2]).  A row is the
\* sequence matrix[i][0..], kept 1-based: row[j + 1] = matrix[i][j].
Cell(a, b, i, j, row, prev, prev2) ==
    LET cost == Cost(a, b, i, j)
        m3 == Min2(Min2(prev[j + 1] + 1, row[j] + 1), prev[j] + cost)
    IN  IF Transposed(a, b, i, j) THEN Min2(m3, prev2[j - 1] + cost) ELSE m3

\* The loop over j of bot.rs:186, n being other.len().
RECURSIVE FillRow(_, _, _, _, _, _, _, _)
FillRow(a, b, n, i, j, row, prev, prev2) ==
    IF j > n THEN row
    ELSE FillRow(a, b, n, i, j + 1,
                 Append(row, Cell(a, b, i, j, row, prev, prev2)), prev, prev2)

\* The loop over i of bot.rs:184, m being self.text.len().
RECURSIVE Rows(_, _, _, _, _, _, _)
Rows(a, b, m, n, i, prev, prev2) ==
    IF i > m THEN prev
    ELSE Rows(a, b, m, n, i + 1,
              FillRow(a, b, n, i, 1, <<i>>, prev, prev2), prev)

\* Question::distance(&self, other): a is self.text, b is other.  The
\* matrix has one row and one column per byte (str::len), its cells compare
\* characters (chars().nth).
Distance(a, b) ==
    IF a = b THEN 0
    ELSE IF ByteLen(a) = 0 THEN ByteLen(b)
    ELSE IF ByteLen(b) = 0 THEN ByteLen(a)
    ELSE LET m == ByteLen(a)
             n == ByteLen(b)
             row0 == [j \in 1..(n + 1) |-> j - 1]
         IN  Rows(a, b, m, n, 1, row0, row0)[n + 1]

\* ------------------------------------------------------------------ inputs

\* The lines a fetched text is made of.
Lines ==
    { <<"a", "a", "a", "a", " ">>,
      <<"b", "b", "b", "b">>,
      <<"a", "a", "b", "b">>,
      <<"a", " ", " ", " ", " ">>,
      <<>> }

RECURSIVE Join(_)
Join(ls) ==
    IF Len(ls) = 1 THEN ls[1] ELSE ls[1] \o <<"\n">> \o Join(Tail(ls))

\* The texts the Source Fetcher can return: 1..MaxLines lines joined by "\n".
RawInputs ==
    { Join(ls) : ls \in UNION { [1..n -> Lines] : n \in 1..MaxLines } }

\* --------------------------------------------------------------- questions

\* Question::new(text), with the id Uuid::new_v4() returns.
NewQuestion(text, id) == [id |-> id, text |-> text, answered |-> FALSE]

\* FirstMatch with the threshold included (<= 4).
FirstMatch_Inclusive(qs, line) ==
    LET hits == { i \in 1..Len(qs) : Distance(qs[i].text, line) <= Threshold }
    IN  IF hits = {} THEN 0 ELSE CHOOSE i \in hits : \A j \in hits : i <= j

\* FirstMatch with the closest entry under the threshold taken (the first of
\* the closest ones).
FirstMatch_Closest(qs, line) ==
    LET hits == { i \in 1..Len(qs) : Distance(qs[i].text, line) < Threshold }
        best == { i \in hits : \A j \in hits :
                    Distance(qs[i].text, line) <= Distance(qs[j].text, line) }
    IN  IF hits = {} THEN 0 ELSE CHOOSE i \in best : \A j \in best : i <= j

\* self.questions.iter_mut().find(|q| q.distance(question) < 4): the index of
\* the first entry under the threshold, 0 when there is none.
FirstMatch(qs, line) ==
    LET hits == { i \in 1..Len(qs) : Distance(qs[i].text, line) < Threshold }
    IN  IF hits = {} THEN 0 ELSE CHOOSE i \in hits : \A j \in hits : i <= j

\* ReconcileLine with the matched entry replaced by a new unanswered entry of
\* the same id, and the text stored untrimmed.
ReconcileLine_ResetsEntry(qs, line, id) ==
    LET k == FirstMatch(qs, line)
    IN  IF k # 0
        THEN IF Distance(qs[k].text, line) # 0
             THEN [qs EXCEPT ![k] = NewQuestion(line, qs[k].id)]
             ELSE qs
        ELSE Append(qs, NewQuestion(Trim(line), id))

\* ReconcileLine with a new Question put in front of the collection.
ReconcileLine_Prepends(qs, line, id) ==
    LET k == FirstMatch(qs, line)
    IN  IF k # 0
        THEN IF Distance(qs[k].text, line) # 0
             THEN [qs EXCEPT ![k].text = Trim(line)]
             ELSE qs
        ELSE <<NewQuestion(Trim(line), id)>> \o qs

\* One iteration of the loop of Bot::load over the pieces of the fetched text.
ReconcileLine(qs, line, id) ==
    LET k == FirstMatch(qs, line)
    IN  IF k # 0
        THEN IF Distance(qs[k].text, line) # 0
             THEN [qs EXCEPT ![k].text = Trim(line)]
             ELSE qs
        ELSE Append(qs, NewQuestion(Trim(line), id))

\* The whole loop; ids are handed out in order from id.
RECURSIVE Reconcile(_, _, _)
Reconcile(qs, ls, id) ==
    IF ls = <<>> THEN qs
    ELSE LET next == ReconcileLine(qs, Head(ls), id)
         IN  Reconcile(next, Tail(ls), IF Len(next) > Len(qs) THEN id + 1 ELSE id)

\* The indices answer() collects: .filter(|q| !q.answered).
Unanswered(qs) == { i \in 1..Len(qs) : ~qs[i].answered }

\* ------------------------------------------------------------- persistence

\* Encode with the objects written last question first.
Encode_Reversed(qs) ==
    <<[t |-> "["]>>
    \o [i \in 1..Len(qs) |->
          [t |-> "{}", id |-> qs[Len(qs) + 1 - i].id,
           text |-> qs[Len(qs) + 1 - i].text,
           answered |-> qs[Len(qs) + 1 - i].answered]]
    \o <<[t |-> "]"]>>

\* serde_json::to_string(&self.questions): a JSON array, one object per
\* Question, as a sequence of tokens.
Encode(qs) ==
    <<[t |-> "["]>>
    \o [i \in 1..Len(qs) |->
          [t |-> "{}", id |-> qs[i].id, text |-> qs[i].text,
           answered |-> qs[i].answered]]
    \o <<[t |-> "]"]>>

\* Whether serde_json::from_str accepts the contents as a Vec<Question>.
WellFormed(f) ==
    /\ Len(f) >= 2
    /\ f[1].t = "["
    /\ f[Len(f)].t = "]"
    /\ \A i \in 2..(Len(f) - 1) : f[i].t = "{}"

\* Decode with the answered field not read back (every flag its default).
Decode_DropsAnswered(f) ==
    IF WellFormed(f)
    THEN [i \in 1..(Len(f) - 2) |->
            [id |-> f[i + 1].id, text |-> f[i + 1].text, answered |-> FALSE]]
    ELSE <<>>

\* serde_json::from_str(&contents).unwrap_or_default()
Decode(f) ==
    IF WellFormed(f)
    THEN [i \in 1..(Len(f) - 2) |->
            [id |-> f[i + 1].id, text |-> f[i + 1].text,
             answered |-> f[i + 1].answered]]
    ELSE <<>>

\* -------------------------------------------------------------------- time

Times == [hour : 0..(HoursPerDay - 1), minute : 0..(MinutesPerHour - 1)]

\* The configured post time (--post_at).
PostAt == [hour |-> 1, minute |-> 0]

\* The value of now outside of its scope (bot.rs:56-65).
NoTime == [hour |-> -1, minute |-> -1]

\* Due with the minute not compared.
Due_HourOnly(qs, t) ==
    /\ Len(qs) > 0
    /\ t.hour = PostAt.hour

\* The condition of bot.rs:57-59.
Due(qs, t) ==
    /\ Len(qs) > 0
    /\ t.hour = PostAt.hour
    /\ t.minute = PostAt.minute

\* ------------------------------------------------------------------- state

VARIABLES
    pc,         \* where the process is (see Awaiting, Synchronous, Ended)
    questions,  \* self.questions
    file,       \* the contents of questions.json (<<>>: empty or absent)
    now,        \* the local now of bot.rs:56, NoTime before it is read
    nextId,     \* the next id Uuid::new_v4() returns
    lines,      \* the pieces of the fetched text the loop of load has left
    chosen,     \* the index answer() selected, 0 outside of answer()
    err,        \* the error start() returned, "" while there is none
    prev,       \* history: self.questions before the last iteration of load
    lastLine,   \* history: <<piece>> the last iteration of load processed
    atDecide,   \* history: self.questions when the cycle checked the time
    decided,    \* history: whether this cycle has checked the time
    calls,      \* history: the Notifier calls of this cycle
    disk,       \* history: the last save (the collections it replaces/writes)
    memAnswered,  \* history: ids seen answered in self.questions (this run)
    fileAnswered, \* history: ids seen answered in questions.json
    sent,       \* history: the ids of the successful Notifier calls so far
    audit,      \* history: the day and the edits, kept by the Audit actions
    probe       \* the arguments and result of one call of Question::distance

vars == <<pc, questions, file, now, nextId, lines, chosen, err,
          prev, lastLine, atDecide, decided, calls, disk,
          memAnswered, fileAnswered, sent, audit, probe>>

\* Positions at which the future of start() is suspended on an await.
Awaiting == {"tick", "restore", "fetch", "send", "save_open", "save_write"}

\* Positions inside synchronous code.
Synchronous == {"reconcile", "decide"}

\* start() has returned an error / the Ctrl-C branch of select! was taken.
Ended == {"returned", "stopped"}

\* The ids of the answered questions of a collection.
AnsweredIds(qs) == { qs[i].id : i \in { j \in 1..Len(qs) : qs[j].answered } }

NoDisk == [state |-> "none", old |-> <<>>, new |-> <<>>]

\* No successful Notifier call yet.
\*   once   the ids the Notifier has been called with successfully
\*   again  the ids it has been called with successfully more than once
NoneSent == [once |-> {}, again |-> {}]

\* The audit before anything has happened.
\*   phase   where the last clock read of the current day lies relative to
\*           the post minute: "before", "at" or "after"
\*   today   the successful Notifier calls of the current day
\*   edited  the ids whose text the loop of load has overwritten
NoAudit == [phase |-> "before", today |-> 0, edited |-> {}]

\* No call of Question::distance is being looked at.
NoProbe == [a |-> <<>>, b |-> <<>>, d |-> -1]

\* Bot::new, before start() is polled; no questions.json exists yet.
Init ==
    /\ pc = "tick"
    /\ questions = <<>>
    /\ file = <<>>
    /\ now = NoTime
    /\ nextId = 1
    /\ lines = <<>>
    /\ chosen = 0
    /\ err = ""
    /\ prev = <<>>
    /\ lastLine = <<>>
    /\ atDecide = <<>>
    /\ decided = FALSE
    /\ calls = <<>>
    /\ disk = NoDisk
    /\ memAnswered = {}
    /\ fileAnswered = {}
    /\ sent = NoneSent
    /\ audit = NoAudit
    /\ probe = NoProbe

\* ----------------------------------------------------------------- actions

\* bot.rs:51  interval.tick().await completes: a cycle starts.
Tick ==
    /\ pc = "tick"
    /\ pc' = "restore"
    /\ UNCHANGED <<questions, file, now, nextId, lines, chosen, err,
                   prev, lastLine, atDecide, decided, calls, disk>>
    /\ UNCHANGED <<memAnswered, fileAnswered>>
    /\ UNCHANGED <<audit, probe, sent>>

\* Bot::restore succeeds: the file is opened (created when absent), read, and
\* parsed; contents that do not parse give the empty collection.
RestoreOk ==
    /\ pc = "restore"
    /\ questions' = Decode(file)
    /\ pc' = "fetch"
    /\ UNCHANGED <<file, now, nextId, lines, chosen, err,
                   prev, lastLine, atDecide, decided, calls, disk>>
    /\ memAnswered' = memAnswered \cup AnsweredIds(questions')
    /\ UNCHANGED fileAnswered
    /\ UNCHANGED <<audit, probe, sent>>

\* Return with the error logged and the loop going on to the next step.
Return_Continue(e) ==
    /\ pc' = (CASE pc = "restore" -> "fetch"
                [] pc = "fetch" -> "save_open"
                [] pc = "send" -> "save_open"
                [] OTHER -> "tick")
    /\ err' = e

\* start() returns the error e of the step it awaited (the ? operator).
Return(e) ==
    /\ pc' = "returned"
    /\ err' = e

\* Bot::restore fails: open or read_to_string returns an error.
RestoreFail ==
    /\ pc = "restore"
    /\ Return("restore")
    /\ UNCHANGED <<questions, file, now, nextId, lines, chosen,
                   prev, lastLine, atDecide, decided, calls, disk>>
    /\ UNCHANGED <<memAnswered, fileAnswered>>
    /\ UNCHANGED <<audit, probe, sent>>

\* Bot::load, bot.rs:104-106: the fetch succeeds with the text raw, which is
\* split at the newlines.  (The guard keeps the id generator within MaxIds.)
FetchOk ==
    /\ pc = "fetch"
    /\ \E raw \in RawInputs :
          LET pieces == Split(raw)
          IN  /\ \/ Len(pieces) <= MaxIds + 1 - nextId
                 \/ Len(Reconcile(questions, pieces, nextId)) - Len(questions)
                       <= MaxIds + 1 - nextId
              /\ lines' = pieces
    /\ pc' = "reconcile"
    /\ UNCHANGED <<questions, file, now, nextId, chosen, err,
                   prev, lastLine, atDecide, decided, calls, disk>>
    /\ UNCHANGED <<memAnswered, fileAnswered>>
    /\ UNCHANGED <<audit, probe, sent>>

\* Bot::load fails: get_async or text returns an error.
FetchFail ==
    /\ pc = "fetch"
    /\ Return("fetch")
    /\ UNCHANGED <<questions, file, now, nextId, lines, chosen,
                   prev, lastLine, atDecide, decided, calls, disk>>
    /\ UNCHANGED <<memAnswered, fileAnswered>>
    /\ UNCHANGED <<audit, probe, sent>>

\* Bot::load, bot.rs:108-122: one iteration of the loop over the pieces.
LoadPiece ==
    /\ pc = "reconcile"
    /\ lines # <<>>
    /\ questions' = ReconcileLine(questions, Head(lines), nextId)
    /\ nextId' = IF Len(questions') > Len(questions) THEN nextId + 1 ELSE nextId
    /\ lines' = Tail(lines)
    /\ pc' = IF Tail(lines) = <<>> THEN "decide" ELSE "reconcile"
    /\ prev' = questions
    /\ lastLine' = <<Head(lines)>>
    /\ UNCHANGED <<file, now, chosen, err, atDecide, decided, calls, disk>>
    /\ memAnswered' = memAnswered \cup AnsweredIds(questions')
    /\ UNCHANGED fileAnswered

\* The iteration, in the specifications that keep no audit.
ReconcileStep ==
    /\ LoadPiece
    /\ UNCHANGED <<audit, probe, sent>>

\* bot.rs:56-62 with the head of Bot::answer (bot.rs:129-143): the clock is
\* read (any time of day: a tick may come late, early after a slow cycle, or
\* on another day) and checked, and when the check passes one of the
\* unanswered questions is chosen.  No unanswered question, or no delivery
\* due: the cycle goes on to save.
CheckTime(t) ==
    /\ pc = "decide"
    /\ now' = t
    /\ IF Due(questions, now') /\ Unanswered(questions) # {}
       THEN /\ \E k \in Unanswered(questions) : chosen' = k
            /\ pc' = "send"
       ELSE /\ chosen' = 0
            /\ pc' = "save_open"
    /\ atDecide' = questions
    /\ decided' = TRUE
    /\ prev' = <<>>
    /\ lastLine' = <<>>
    /\ UNCHANGED <<questions, file, nextId, lines, err, calls, disk>>
    /\ UNCHANGED <<memAnswered, fileAnswered>>

\* The time check, in the specifications that keep no audit.
Decide ==
    /\ \E t \in Times : CheckTime(t)
    /\ UNCHANGED <<audit, probe, sent>>

\* The Notifier call of bot.rs:146, as the history records it.
Call(ok) == [id |-> questions[chosen].id, text |-> questions[chosen].text,
             ok |-> ok]

\* SendOk with the flag set on the first unanswered question instead of the
\* one whose text was sent.
SendOk_MarksFirst ==
    /\ pc = "send"
    /\ calls' = Append(calls, Call(TRUE))
    /\ LET first == CHOOSE i \in Unanswered(questions) :
                        \A j \in Unanswered(questions) : i <= j
       IN  questions' = [questions EXCEPT ![first].answered = TRUE]
    /\ chosen' = 0
    /\ pc' = "save_open"
    /\ memAnswered' = memAnswered \cup AnsweredIds(questions')
    /\ UNCHANGED <<file, now, nextId, lines, err,
                   prev, lastLine, atDecide, decided, disk, fileAnswered>>
    /\ sent' = [once |-> sent.once \cup {questions[chosen].id},
                again |-> sent.again \cup ({questions[chosen].id} \cap sent.once)]
    /\ UNCHANGED <<audit, probe>>

\* Bot::answer, bot.rs:146-150: hook.send succeeds, the question is marked.
Delivered ==
    /\ pc = "send"
    /\ calls' = Append(calls, Call(TRUE))
    /\ questions' = [questions EXCEPT ![chosen].answered = TRUE]
    /\ chosen' = 0
    /\ pc' = "save_open"
    /\ UNCHANGED <<file, now, nextId, lines, err,
                   prev, lastLine, atDecide, decided, disk>>
    /\ memAnswered' = memAnswered \cup AnsweredIds(questions')
    /\ UNCHANGED fileAnswered
    /\ sent' = [once |-> sent.once \cup {questions[chosen].id},
                again |-> sent.again \cup ({questions[chosen].id} \cap sent.once)]

\* The delivery, in the specifications that keep no audit.
SendOk ==
    /\ Delivered
    /\ UNCHANGED <<audit, probe>>

\* SendFail with the flag set before the Notifier is awaited.
SendFail_MarksBefore ==
    /\ pc = "send"
    /\ calls' = Append(calls, Call(FALSE))
    /\ questions' = [questions EXCEPT ![chosen].answered = TRUE]
    /\ pc' = "returned"
    /\ err' = "notify"
    /\ UNCHANGED <<file, now, nextId, lines, chosen,
                   prev, lastLine, atDecide, decided, disk,
                   memAnswered, fileAnswered>>
    /\ UNCHANGED <<audit, probe, sent>>

\* Bot::answer, bot.rs:146: hook.send fails, answer and start return the error.
SendFail ==
    /\ pc = "send"
    /\ calls' = Append(calls, Call(FALSE))
    /\ Return("notify")
    /\ UNCHANGED <<questions, file, now, nextId, lines, chosen,
                   prev, lastLine, atDecide, decided, disk>>
    /\ UNCHANGED <<memAnswered, fileAnswered>>
    /\ UNCHANGED <<audit, probe, sent>>

\* Bot::save, bot.rs:88-92: the file is opened with truncate(true).
SaveOpenOk ==
    /\ pc = "save_open"
    /\ file' = <<>>
    /\ disk' = [state |-> "writing", old |-> Decode(file), new |-> questions]
    /\ pc' = "save_write"
    /\ UNCHANGED <<questions, now, nextId, lines, chosen, err,
                   prev, lastLine, atDecide, decided, calls>>
    /\ UNCHANGED <<memAnswered, fileAnswered>>
    /\ UNCHANGED <<audit, probe, sent>>

\* Bot::save fails at open: the file is as it was.
SaveOpenFail ==
    /\ pc = "save_open"
    /\ Return("save")
    /\ UNCHANGED <<questions, file, now, nextId, lines, chosen,
                   prev, lastLine, atDecide, decided, calls, disk>>
    /\ UNCHANGED <<memAnswered, fileAnswered>>
    /\ UNCHANGED <<audit, probe, sent>>

\* SaveWriteOk with the collection written as it was at the time check,
\* before Bot::answer ran.
SaveWriteOk_BeforeAnswer ==
    /\ pc = "save_write"
    /\ file' = Encode(atDecide)
    /\ disk' = [state |-> "complete", old |-> <<>>, new |-> atDecide]
    /\ pc' = "tick"
    /\ now' = NoTime
    /\ atDecide' = <<>>
    /\ decided' = FALSE
    /\ calls' = <<>>
    /\ UNCHANGED <<questions, nextId, lines, chosen, err, prev, lastLine>>
    /\ fileAnswered' = fileAnswered \cup AnsweredIds(Decode(file'))
    /\ UNCHANGED memAnswered
    /\ UNCHANGED <<audit, probe, sent>>

\* Bot::save, bot.rs:93-99: the collection is serialised and written; the
\* cycle is over and the loop awaits the next tick.
SaveWriteOk ==
    /\ pc = "save_write"
    /\ file' = Encode(questions)
    /\ disk' = [state |-> "complete", old |-> <<>>, new |-> questions]
    /\ pc' = "tick"
    /\ now' = NoTime
    /\ atDecide' = <<>>
    /\ decided' = FALSE
    /\ calls' = <<>>
    /\ UNCHANGED <<questions, nextId, lines, chosen, err, prev, lastLine>>
    /\ fileAnswered' = fileAnswered \cup AnsweredIds(Decode(file'))
    /\ UNCHANGED memAnswered
    /\ UNCHANGED <<audit, probe, sent>>

\* Bot::save fails while writing: write_all has written n tokens.
SaveWriteFail ==
    /\ pc = "save_write"
    /\ \E n \in 0..(Len(Encode(questions)) - 1) :
          file' = SubSeq(Encode(questions), 1, n)
    /\ Return("save")
    /\ UNCHANGED <<questions, now, nextId, lines, chosen,
                   prev, lastLine, atDecide, decided, calls, disk>>
    /\ fileAnswered' = fileAnswered \cup AnsweredIds(Decode(file'))
    /\ UNCHANGED memAnswered
    /\ UNCHANGED <<audit, probe, sent>>

\* main.rs:36-43: Ctrl-C arrives while start() is suspended; select! drops
\* the future where it is and main returns.
Stop ==
    /\ pc \in Awaiting
    /\ pc' = "stopped"
    /\ UNCHANGED <<questions, file, now, nextId, lines, chosen, err,
                   prev, lastLine, atDecide, decided, calls, disk>>
    /\ UNCHANGED <<memAnswered, fileAnswered>>
    /\ UNCHANGED <<audit, probe, sent>>

\* The program is started again: main.rs:30-34 builds a new Bot, the file
\* and the id generator's past are what the previous process left.
Restart ==
    /\ pc \in Ended
    /\ pc' = "tick"
    /\ questions' = <<>>
    /\ now' = NoTime
    /\ lines' = <<>>
    /\ chosen' = 0
    /\ err' = ""
    /\ prev' = <<>>
    /\ lastLine' = <<>>
    /\ atDecide' = <<>>
    /\ decided' = FALSE
    /\ calls' = <<>>
    /\ UNCHANGED <<file, nextId, disk>>
    /\ memAnswered' = {}
    /\ UNCHANGED fileAnswered
    /\ UNCHANGED <<audit, probe, sent>>

\* One run of the program.
Next ==
    \/ Tick
    \/ RestoreOk
    \/ RestoreFail
    \/ FetchOk
    \/ FetchFail
    \/ ReconcileStep
    \/ Decide
    \/ SendOk
    \/ SendFail
    \/ SaveOpenOk
    \/ SaveOpenFail
    \/ SaveWriteOk
    \/ SaveWriteFail
    \/ Stop

Spec == Init /\ [][Next]_vars

\* Runs of the program, one after the other, on the same questions.json.
NextRestart == Next \/ Restart

SpecRestart == Init /\ [][NextRestart]_vars

\* ------------------------------------------------------------------- audit

MinuteOfDay(t) == t.hour * MinutesPerHour + t.minute

\* Where the time of day t lies relative to the post minute.
Phase(t) ==
    IF MinuteOfDay(t) < MinuteOfDay(PostAt) THEN "before"
    ELSE IF MinuteOfDay(t) = MinuteOfDay(PostAt) THEN "at"
    ELSE "after"

PhaseRank(p) == CASE p = "before" -> 0 [] p = "at" -> 1 [] p = "after" -> 2

\* bot.rs:108-122 with the audit: the entry whose text is assigned
\* (bot.rs:111-114) is noted.
ReconcileStepAudit ==
    /\ LoadPiece
    /\ LET k == FirstMatch(questions, Head(lines))
       IN  audit' = IF k # 0 /\ Distance(questions[k].text, Head(lines)) # 0
                    THEN [audit EXCEPT !.edited = @ \cup {questions[k].id}]
                    ELSE audit
    /\ UNCHANGED <<probe, sent>>

\* bot.rs:56-62 with the audit: Utc::now() is read on the day of the
\* previous read, at the same minute or later (the read follows a restore
\* and a fetch of any duration, so two reads 60 s of ticks apart can fall in
\* one minute, and a minute can pass without a read), or on a later day.
DecideAudit ==
    /\ \E t \in Times, newDay \in BOOLEAN :
          /\ newDay \/ PhaseRank(Phase(t)) >= PhaseRank(audit.phase)
          /\ CheckTime(t)
          /\ audit' = [audit EXCEPT !.phase = Phase(t),
                                    !.today = IF newDay THEN 0 ELSE @]
    /\ UNCHANGED <<probe, sent>>

\* bot.rs:146-150 with the audit: the successful call is counted.
SendOkAudit ==
    /\ Delivered
    /\ audit' = [audit EXCEPT !.today = @ + 1]
    /\ UNCHANGED probe

\* One run of the program, with the audit kept.
NextAudit ==
    \/ Tick
    \/ RestoreOk
    \/ RestoreFail
    \/ FetchOk
    \/ FetchFail
    \/ ReconcileStepAudit
    \/ DecideAudit
    \/ SendOkAudit
    \/ SendFail
    \/ SaveOpenOk
    \/ SaveOpenFail
    \/ SaveWriteOk
    \/ SaveWriteFail
    \/ Stop

SpecAudit == Init /\ [][NextAudit]_vars

\* ---------------------------------------------------- distance, on its own

Alphabet == {"a", "b", "U+00E9"}

\* The strings of at most MaxChars characters.
Strings == UNION { [1..n -> Alphabet] : n \in 0..MaxChars }

\* A call q.distance(other) about to be made, q.text and other being any two
\* strings; the bot is as Bot::new leaves it.
InitDistance ==
    /\ pc = "tick"
    /\ questions = <<>>
    /\ file = <<>>
    /\ now = NoTime
    /\ nextId = 1
    /\ lines = <<>>
    /\ chosen = 0
    /\ err = ""
    /\ prev = <<>>
    /\ lastLine = <<>>
    /\ atDecide = <<>>
    /\ decided = FALSE
    /\ calls = <<>>
    /\ disk = NoDisk
    /\ memAnswered = {}
    /\ fileAnswered = {}
    /\ sent = NoneSent
    /\ audit = NoAudit
    /\ probe \in [a : Strings, b : Strings, d : {-1}]

\* The call returns.
Measure ==
    /\ probe.d = -1
    /\ probe' = [probe EXCEPT !.d = Distance(probe.a, probe.b)]
    /\ UNCHANGED <<pc, questions, file, now, nextId, lines, chosen, err,
                   prev, lastLine, atDecide, decided, calls, disk,
                   memAnswered, fileAnswered, sent, audit>>

NextDistance == Measure

SpecDistance == InitDistance /\ [][NextDistance]_vars

\* ------------------------------------------------------------------ claims

\* The answered flags of a collection, in order.
Flags(qs) == [i \in 1..Len(qs) |-> qs[i].answered]

\* The cycle checked the time with a delivery due and an unanswered question.
Triggered ==
    /\ decided
    /\ Len(atDecide) > 0
    /\ now.hour = PostAt.hour
    /\ now.minute = PostAt.minute
    /\ Unanswered(atDecide) # {}

\* C1: when the Notifier call of a triggered delivery fails, answer() and
\* start() return the error with every answered flag as it was when the
\* delivery was triggered; the selected question is still unanswered.
C1_FailedNotifyKeepsFlags ==
    (pc = "returned" /\ err = "notify") =>
        /\ Len(calls) = 1
        /\ ~calls[1].ok
        /\ Flags(questions) = Flags(atDecide)
        /\ chosen \in Unanswered(questions)
        /\ questions[chosen].id = calls[1].id

\* C1 witness: the Notifier failed in a cycle whose collection held an
\* answered and an unanswered question.
C1_Witness ==
    /\ pc = "returned"
    /\ err = "notify"
    /\ Len(questions) = 2
    /\ Cardinality(Unanswered(questions)) = 1

\* C2: in a triggered delivery whose Notifier call succeeds, the Notifier is
\* called exactly once, with the text of an entry that was unanswered when it
\* was selected, and that entry alone goes from unanswered to answered.
C2_OneDelivery ==
    (Triggered /\ pc \in {"save_open", "save_write"}) =>
        /\ Len(calls) = 1
        /\ calls[1].ok
        /\ \E k \in Unanswered(atDecide) :
              /\ calls[1].text = atDecide[k].text
              /\ calls[1].id = atDecide[k].id
              /\ questions = [atDecide EXCEPT ![k].answered = TRUE]

\* C2 witness: a delivery succeeded with two unanswered questions to choose
\* from, and the second was the one delivered.
C2_Witness ==
    /\ Triggered
    /\ pc = "save_open"
    /\ Cardinality(Unanswered(atDecide)) = 2
    /\ questions[2].answered

\* C3: within a run of start(), a question id once answered in memory is
\* answered in every later state of self.questions that holds the id, and an
\* id once answered in questions.json is answered in every later state of the
\* file that holds it.
C3_AnsweredMonotonic ==
    /\ \A i \in 1..Len(questions) :
          questions[i].id \in memAnswered => questions[i].answered
    /\ LET saved == Decode(file)
       IN  \A i \in 1..Len(saved) :
              saved[i].id \in fileAnswered => saved[i].answered

\* C3 witness: a question answered and saved in an earlier cycle has been
\* restored and reconciled in a later cycle, and is answered in memory and
\* in the file.
C3_Witness ==
    /\ pc = "decide"
    /\ disk.state = "complete"
    /\ \E i \in 1..Len(questions) :
          /\ questions[i].id \in memAnswered
          /\ questions[i].id \in fileAnswered
          /\ questions[i].answered
          /\ questions[i].text # disk.new[i].text

\* C4: a restore that follows a save which did not complete (the process
\* stopped or failed in it) observes the collection persisted before that
\* save or the collection the save was writing.
C4_SaveAtomic ==
    (pc = "fetch" /\ disk.state = "writing") =>
        questions \in {disk.old, disk.new}

\* C5: the collection restored at the start of a cycle is the collection the
\* last completed save wrote: same ids, texts and flags in the same order.
C5_RoundTrip ==
    (pc = "fetch" /\ disk.state = "complete") => questions = disk.new

\* C5 witness: a restore after a completed save of two questions of which
\* exactly one is answered.
C5_Witness ==
    /\ pc = "fetch"
    /\ disk.state = "complete"
    /\ Len(disk.new) = 2
    /\ Cardinality(Unanswered(disk.new)) = 1
    /\ questions = disk.new

\* The ids of a collection.
Ids(qs) == { qs[i].id : i \in 1..Len(qs) }

\* The last iteration of load processed the piece lastLine[1] on prev.
Stepped == lastLine # <<>>

\* C6: ingesting the same line twice produces one Question, not two: when the
\* piece the loop of load is about to process is the piece it has just
\* processed, the iteration appends nothing.
C6_SameLineTwice ==
    [][(pc = "reconcile" /\ lines # <<>> /\ lastLine = <<Head(lines)>>)
          => Len(questions') = Len(questions)]_vars

\* C7 as stated, for a line that is not blank and a collection without blank
\* texts: every entry whose distance to the line is in (0, 4) has its text
\* overwritten with the trimmed line, id and answered kept, and the
\* collection keeps its size.
C7_AnyEntryOverwritten ==
    (/\ Stepped
     /\ Trim(lastLine[1]) # <<>>
     /\ \A i \in 1..Len(prev) : prev[i].text # <<>>) =>
        \A i \in 1..Len(prev) :
            (/\ Distance(prev[i].text, lastLine[1]) > 0
             /\ Distance(prev[i].text, lastLine[1]) < Threshold)
            => /\ Len(questions) = Len(prev)
               /\ questions[i].text = Trim(lastLine[1])
               /\ questions[i].id = prev[i].id
               /\ questions[i].answered = prev[i].answered

\* C7 amended: when the first entry in collection order whose distance to the
\* line is below 4 has a distance above 0, that entry's text is overwritten
\* with the trimmed line, its id and answered flag are kept, and the
\* collection keeps its size.
C7_FirstEntryOverwritten ==
    Stepped =>
        \A i \in 1..Len(prev) :
            (/\ Distance(prev[i].text, lastLine[1]) > 0
             /\ Distance(prev[i].text, lastLine[1]) < Threshold
             /\ \A j \in 1..(i - 1) :
                   Distance(prev[j].text, lastLine[1]) >= Threshold)
            => /\ Len(questions) = Len(prev)
               /\ questions[i].text = Trim(lastLine[1])
               /\ questions[i].id = prev[i].id
               /\ questions[i].answered = prev[i].answered

\* C7 witness: an answered entry was overwritten by a line with trailing
\* whitespace at a distance in (0, 4).
C7_Witness ==
    /\ Stepped
    /\ Len(prev) >= 1
    /\ Distance(prev[1].text, lastLine[1]) > 0
    /\ Distance(prev[1].text, lastLine[1]) < Threshold
    /\ prev[1].answered
    /\ Trim(lastLine[1]) # lastLine[1]
    /\ Trim(lastLine[1]) # prev[1].text
    /\ questions[1].text = Trim(lastLine[1])

\* C8: a line at distance 4 or more from every existing entry appends exactly
\* one Question at the end, with an id no existing entry has, the trimmed
\* line as text and answered = false; a line at distance below 4 from some
\* existing entry appends nothing.
C8_AppendBeyondThreshold ==
    Stepped =>
        IF \A i \in 1..Len(prev) :
               Distance(prev[i].text, lastLine[1]) >= Threshold
        THEN /\ Len(questions) = Len(prev) + 1
             /\ SubSeq(questions, 1, Len(prev)) = prev
             /\ questions[Len(questions)].text = Trim(lastLine[1])
             /\ questions[Len(questions)].answered = FALSE
             /\ questions[Len(questions)].id \notin Ids(prev)
        ELSE Len(questions) = Len(prev)

\* C8 witness: a line with trailing whitespace, at distance exactly 4 from
\* the one existing entry, was appended after it.
C8_Witness ==
    /\ Stepped
    /\ Len(prev) = 1
    /\ Distance(prev[1].text, lastLine[1]) = Threshold
    /\ Trim(lastLine[1]) # lastLine[1]
    /\ Len(questions) = 2

\* C9: the Notifier is called in a cycle only if, at the time check, the
\* collection was non-empty and the hour and the minute both equalled the
\* post time; in a cycle whose time check fails there is no Notifier call,
\* no delivery is awaited and the collection stays as it was at the check.
C9_OnlyWhenDue ==
    LET due == /\ Len(atDecide) > 0
               /\ now.hour = PostAt.hour
               /\ now.minute = PostAt.minute
    IN  /\ (calls # <<>> \/ pc = "send") => (decided /\ due)
        /\ (decided /\ ~due) => (questions = atDecide /\ chosen = 0)

\* C9 witness: a cycle read the clock in the post hour but not the post
\* minute, with an unanswered question in the collection, and went on to
\* save without a Notifier call.
C9_Witness ==
    /\ decided
    /\ pc = "save_open"
    /\ now.hour = PostAt.hour
    /\ now.minute # PostAt.minute
    /\ Unanswered(atDecide) # {}
    /\ calls = <<>>

\* C10: once a step of a cycle has failed, start() has returned its error:
\* the process is at no later step and never starts another cycle, and after
\* a failed restore, fetch or notify the file is what the last completed save
\* left (no save has begun); after a failed restore or fetch neither the time
\* check nor a Notifier call has happened.
C10_FailFast ==
    err # "" =>
        /\ pc = "returned"
        /\ err \in {"restore", "fetch", "notify", "save"}
        /\ err \in {"restore", "fetch", "notify"} =>
              /\ disk.state # "writing"
              /\ file = (IF disk.state = "complete"
                         THEN Encode(disk.new) ELSE <<>>)
        /\ err \in {"restore", "fetch"} => (~decided /\ calls = <<>>)

\* C10 witness: the fetch of a later cycle failed, the questions of the
\* earlier cycle's save are still in the file.
C10_Witness ==
    /\ pc = "returned"
    /\ err = "fetch"
    /\ disk.state = "complete"
    /\ Len(Decode(file)) > 0

C12_StopBetweenCycles == [][pc' = "stopped" => pc = "tick"]_vars

\* The least number of insertions, deletions, substitutions and adjacent
\* transpositions (no substring edited twice) that turn the first i
\* characters of a into the first j characters of b.
RECURSIVE Alignment(_, _, _, _)
Alignment(a, b, i, j) ==
    IF i = 0 THEN j
    ELSE IF j = 0 THEN i
    ELSE LET del == Alignment(a, b, i - 1, j) + 1
             ins == Alignment(a, b, i, j - 1) + 1
             sub == Alignment(a, b, i - 1, j - 1)
                      + (IF a[i] = b[j] THEN 0 ELSE 1)
             m3 == IF del < ins
                   THEN (IF del < sub THEN del ELSE sub)
                   ELSE (IF ins < sub THEN ins ELSE sub)
         IN  IF i > 1 /\ j > 1 /\ a[i] = b[j - 1] /\ a[i - 1] = b[j]
                /\ Alignment(a, b, i - 2, j - 2) + 1 < m3
             THEN Alignment(a, b, i - 2, j - 2) + 1
             ELSE m3

EditDistance(a, b) == Alignment(a, b, Len(a), Len(b))

\* C13: Question::distance(a, b) is the Damerau-Levenshtein distance
\* restricted to adjacent transpositions of a and b, for all strings a and b
\* of at most MaxChars characters of the alphabet.
C13_DistanceIsEditDistance ==
    probe.d >= 0 => probe.d = EditDistance(probe.a, probe.b)

\* Whether entry i of qs is within the threshold of line.
Near(qs, i, line) == Distance(qs[i].text, line) < Threshold

\* C14: first match wins: when entries are within the threshold of the
\* incoming line, the first of them in collection order is left as it is at
\* distance 0 and has its text overwritten otherwise; every other entry is
\* untouched and nothing is appended.
C14_FirstMatchWins ==
    Stepped
        => \A k \in 1..Len(prev) :
              (/\ Near(prev, k, lastLine[1])
               /\ \A h \in 1..(k - 1) : ~Near(prev, h, lastLine[1]))
                  => /\ Len(questions) = Len(prev)
                     /\ questions[k] =
                           IF Distance(prev[k].text, lastLine[1]) = 0
                           THEN prev[k]
                           ELSE [prev[k] EXCEPT !.text = Trim(lastLine[1])]
                     /\ \A i \in 1..Len(prev) :
                           i # k => questions[i] = prev[i]

\* A line has been reconciled with two entries within the threshold, the
\* second at least as close as the first: the first is overwritten, the
\* second is as it was.
C14_Witness ==
    /\ Stepped
    /\ \E i, j \in 1..Len(prev) :
          /\ i < j
          /\ Near(prev, i, lastLine[1])
          /\ Near(prev, j, lastLine[1])
          /\ \A h \in 1..(i - 1) : ~Near(prev, h, lastLine[1])
          /\ Distance(prev[j].text, lastLine[1])
                <= Distance(prev[i].text, lastLine[1])
          /\ Distance(prev[i].text, lastLine[1]) > 0
          /\ questions[i].text = Trim(lastLine[1])
          /\ questions[j] = prev[j]

\* C15: a piece of the fetched text that is empty after trimming appends no
\* Question and changes no text: the collection is as it was.
C15_BlankLineSkipped ==
    (Stepped /\ Trim(lastLine[1]) = <<>>) => questions = prev

\* The texts and flags of a collection, in order (everything but the ids).
Content(qs) ==
    [i \in 1..Len(qs) |-> [text |-> qs[i].text, answered |-> qs[i].answered]]

\* C16: reconciling a line gives the collection (ids apart) that reconciling
\* its trimmed form gives (collections of non-blank questions).
C16_TrimmedLineSameResult ==
    (Stepped /\ \A i \in 1..Len(prev) : prev[i].text # <<>>)
        => Content(questions)
             = Content(ReconcileLine(prev, Trim(lastLine[1]), 0))

\* C17: reconciliation frame.  While and after the fetched text is
\* reconciled, every entry of the restored collection is where it was with
\* the id and the flag it had, and the entries after them are unanswered
\* and in the order they were made (ids are handed out in increasing
\* order); one iteration appends at most one entry, at the end.
C17_ReconcileFrame ==
    /\ pc \in {"reconcile", "decide"}
          => LET base == Decode(file)
             IN  /\ Len(questions) >= Len(base)
                 /\ \A i \in 1..Len(base) :
                       /\ questions[i].id = base[i].id
                       /\ questions[i].answered = base[i].answered
                 /\ \A i \in (Len(base) + 1)..Len(questions) :
                       /\ ~questions[i].answered
                       /\ \A j \in 1..(i - 1) :
                             questions[j].id < questions[i].id
    /\ Stepped
          => /\ Len(questions) \in {Len(prev), Len(prev) + 1}
             /\ \A i \in 1..Len(prev) :
                   /\ questions[i].id = prev[i].id
                   /\ questions[i].answered = prev[i].answered

\* A fetched text has been reconciled with a restored collection whose
\* first entry is answered: that entry has a new text, and an entry has been
\* appended after it.
C17_Witness ==
    /\ pc = "decide"
    /\ Decode(file) # <<>>
    /\ Decode(file)[1].answered
    /\ questions[1].text # Decode(file)[1].text
    /\ Len(questions) > Len(Decode(file))

\* The ids of the successful Notifier calls of the cycle.
DeliveredIds == { calls[i].id : i \in { j \in 1..Len(calls) : calls[j].ok } }

\* C18: a save completes only in a cycle that has reconciled the whole
\* fetched text and then checked the time, and what it leaves in the file is
\* the collection in memory: the collection the reconciliation gave, entry
\* by entry, with the flag of the question delivered in the cycle set.
C18_SaveReflectsCycle ==
    [][(pc = "save_write" /\ pc' = "tick")
          => /\ decided
             /\ lines = <<>>
             /\ chosen = 0
             /\ Decode(file') = questions
             /\ Len(Decode(file')) = Len(atDecide)
             /\ \A i \in 1..Len(atDecide) :
                   /\ Decode(file')[i].id = atDecide[i].id
                   /\ Decode(file')[i].text = atDecide[i].text
                   /\ Decode(file')[i].answered
                         = (atDecide[i].answered
                              \/ atDecide[i].id \in DeliveredIds)
             /\ DeliveredIds \subseteq AnsweredIds(Decode(file'))]_vars

\* A save has completed after a delivery: the file holds the collection in
\* memory, one question delivered and answered, another one not.
C18_Witness ==
    /\ pc = "tick"
    /\ disk.state = "complete"
    /\ Decode(file) = questions
    /\ sent.once # {}
    /\ sent.once = AnsweredIds(Decode(file))
    /\ Unanswered(questions) # {}

\* C19: collection invariant: the ids are pairwise distinct, and of any two
\* entries whose texts are within the threshold of each other at least one
\* has had its text set by an in-place update (collections of non-blank
\* questions).
C19_CollectionInvariant ==
    (\A i \in 1..Len(questions) : questions[i].text # <<>>)
        => \A i, j \in 1..Len(questions) :
              i < j
                => /\ questions[i].id # questions[j].id
                   /\ Distance(questions[i].text, questions[j].text) < Threshold
                         => \/ questions[i].id \in audit.edited
                            \/ questions[j].id \in audit.edited

\* C20: no question is delivered twice: whatever the cycles, stops, failures
\* and restarts, no id has been the subject of more than one successful
\* Notifier call (collections of non-blank questions).
C20_DeliveredOnce ==
    (\A i \in 1..Len(questions) : questions[i].text # <<>>)
        => sent.again = {}

====
